---- MODULE Spec2Model ----
(***************************************************************************)
(* bio-link: identity and session state machine of src/server.js over the  *)
(* relational store declared in src/db.js.  Every store statement          *)
(* (get/run) is one atomic step; a request is a sequence of such steps,    *)
(* and requests of different connections interleave between statements.    *)
(***************************************************************************)
EXTENDS Integers, Sequences, FiniteSets, TLC

\* ensured: the users for whom a call of ensurePageForUser has returned
\* (history, read by no action).
VARIABLES users, pages, invite_keys, sessions, impersonations,
          cookie, req, nextTok, budget, ensured

db == <<users, pages, invite_keys, sessions, impersonations>>
vars == <<users, pages, invite_keys, sessions, impersonations,
          cookie, req, nextTok, budget, ensured>>

(* ------------------------------ bounds --------------------------------- *)

\* Requests that may be started when connections are concurrent.
MaxRequests == 4
\* Requests that may be started when one request runs at a time.
MaxSeqRequests == 6
\* The slug search on its own: the sequential limit (9999 in the code) scaled
\* down, so that a table holding every sequential candidate stays small.
SlugSeqLimit == 4

\* The clients: each a browser with its cookie jar and one request in flight.
\* A request starts with its first store statement.
Procs == {"p1", "p2"}

(* ------------------------------ strings -------------------------------- *)
\* A string is a sequence of one-character strings.

LowerLetters == <<"a","b","c","d","e","f","g","h","i","j","k","l","m",
                  "n","o","p","q","r","s","t","u","v","w","x","y","z">>
UpperLetters == <<"A","B","C","D","E","F","G","H","I","J","K","L","M",
                  "N","O","P","Q","R","S","T","U","V","W","X","Y","Z">>
DigitChars == <<"0","1","2","3","4","5","6","7","8","9">>

Range(s) == {s[k] : k \in DOMAIN s}

toLowerChar(c) ==
    IF \E k \in DOMAIN UpperLetters : UpperLetters[k] = c
    THEN LowerLetters[CHOOSE k \in DOMAIN UpperLetters : UpperLetters[k] = c]
    ELSE c

toLowerCase(s) == [k \in DOMAIN s |-> toLowerChar(s[k])]

trim(s) ==
    LET keep == {k \in DOMAIN s : s[k] # " "}
        lo == CHOOSE k \in keep : \A j \in keep : k <= j
        hi == CHOOSE k \in keep : \A j \in keep : j <= k
    IN IF keep = {} THEN <<>> ELSE SubSeq(s, lo, hi)

slice(s, n) == IF Len(s) <= n THEN s ELSE SubSeq(s, 1, n)

\* [a-z0-9_]
IsWordChar(c) == c \in Range(LowerLetters) \cup Range(DigitChars) \cup {"_"}
\* [a-z0-9_-]
IsSlugChar(c) == IsWordChar(c) \/ c = "-"

RECURSIVE Dec(_)
\* Decimal digits of a natural number, as `${i}` prints them.
Dec(n) == IF n < 10 THEN <<DigitChars[n + 1]>>
          ELSE Dec(n \div 10) \o <<DigitChars[(n % 10) + 1]>>

\* The value a function returns for "no value" (null).
Null == <<"null">>

SlugMaxLen == 32
normalizeSlug(s) == slice(SelectSeq(trim(toLowerCase(s)), IsSlugChar), SlugMaxLen)

uniqueSlug(base) ==
    LET b == normalizeSlug(base) IN IF b = <<>> THEN <<"u","s","e","r">> ELSE b

UsernameMinLen == 3
UsernameMaxLen == 20
validateUsername(u) ==
    LET v == trim(toLowerCase(u))
    IN IF /\ Len(v) >= UsernameMinLen
          /\ Len(v) <= UsernameMaxLen
          /\ \A k \in DOMAIN v : IsWordChar(v[k])
       THEN v ELSE Null

SlugMinLen == 2
validateSlug(s) ==
    LET v == normalizeSlug(s)
    IN IF Len(v) >= SlugMinLen /\ Len(v) <= SlugMaxLen THEN v ELSE Null

PasswordMinLen == 6

\* bcrypt: an opaque one-way hash with a verify function.
bcryptHash(password) == <<"bcrypt", password>>
\* Mutant: a verify function that accepts every password.
bcryptCompareAny(password, hash) == TRUE

bcryptCompare(password, hash) == hash = bcryptHash(password)

(* ------------------------------- store --------------------------------- *)

AdminId == 1
AdminName == <<"i","q","s","m">>
AdminPassword == "Indi2017!!::"

NoUser == [id |-> 0, username |-> <<>>, password_hash |-> <<>>, banned |-> FALSE]

MaxOf(S) == IF S = {} THEN 0 ELSE CHOOSE x \in S : \A y \in S : y <= x

\* users.id INTEGER PRIMARY KEY AUTOINCREMENT
NextUserId(U) == MaxOf({u.id : u \in U}) + 1
\* Mutant: username without its UNIQUE constraint.
UsersInsertAny(U, name) == TRUE

\* users.username TEXT NOT NULL UNIQUE
UsersInsertAllowed(U, name) == \A u \in U : u.username # name

UserByName(U, name) ==
    IF \E u \in U : u.username = name
    THEN CHOOSE u \in U : u.username = name ELSE NoUser
UserById(U, id) ==
    IF \E u \in U : u.id = id THEN CHOOSE u \in U : u.id = id ELSE NoUser

\* pages.user_id INTEGER PRIMARY KEY, pages.slug TEXT NOT NULL UNIQUE
PagesInsertAllowed(P, uid, slug) ==
    \A r \in P : r.user_id # uid /\ r.slug # slug
\* Mutant: slug without its UNIQUE constraint on UPDATE.
PagesUpdateAny(P, uid, slug) == TRUE

PagesUpdateAllowed(P, uid, slug) ==
    \A r \in P : r.user_id # uid => r.slug # slug

SlugTaken(P, slug) == \E r \in P : r.slug = slug
\* Mutant: the existence lookup without its WHERE user_id = ?.
HasAnyPage(P, uid) == P # {}

\* SELECT user_id FROM pages WHERE user_id = ? LIMIT 1
HasPage(P, uid) == \E r \in P : r.user_id = uid
PageOf(P, uid) == CHOOSE r \in P : r.user_id = uid
\* Mutant: the owner lookup that finds no row.
SlugOwnerNone(P, slug) == 0

\* SELECT user_id FROM pages WHERE slug = ? LIMIT 1 (0: no row)
SlugOwner(P, slug) ==
    IF SlugTaken(P, slug) THEN (CHOOSE r \in P : r.slug = slug).user_id ELSE 0

KeyRow(K, k) == CHOOSE r \in K : r.key = k
KeyExists(K, k) == \E r \in K : r.key = k

\* SELECT user_id FROM sessions WHERE token = ? LIMIT 1 (0: no row)
SessionUser(S, t) ==
    IF \E s \in S : s.token = t THEN (CHOOSE s \in S : s.token = t).user_id ELSE 0
\* SELECT admin_user_id FROM impersonations WHERE token = ? LIMIT 1 (0: no row)
ImpersonationAdmin(I, t) ==
    IF \E s \in I : s.token = t
    THEN (CHOOSE s \in I : s.token = t).admin_user_id ELSE 0

(* ------------------------------ requests ------------------------------- *)

\* What a client may submit.
Bob == <<"b","o","b">>
AmyRaw == <<"A","m","y"," ">>
\* (username, password) pairs submitted to POST /signup
SignupInputs == { <<AdminName, "secret">>, <<Bob, "secret">>, <<AmyRaw, "secret">>,
                  <<<<"a","b">>, "secret">>, <<Bob, "abc">> }
\* (username, password) pairs submitted to POST /login
LoginInputs == { <<AdminName, AdminPassword>>, <<AdminName, "secret">>,
                 <<Bob, "secret">>, <<Bob, AdminPassword>>, <<AmyRaw, "secret">> }
SlugInputs == { <<>>, <<"B","o","b","!">>, <<"a">> }
DisplayNameInputs == { <<" ","Z">> }
IdInputs == 0..2
\* Mutant: a fallback that always draws the same suffix.
RandomSuffixOne == { <<"x">> }

\* nanoid(6).toLowerCase(), shortened to one character
RandomSuffixes == { <<"x">>, <<"y">> }

\* if (i > 9999)
SeqLimit == 9999
DisplayNameMaxLen == 40

NoCookie == 0
ClearCookie == -1
NoRow == -1

IdleReq ==
    [pc |-> "idle", op |-> "", br |-> "", tok |-> 0, user |-> NoUser, sess_uid |-> 0,
     found |-> NoUser,
     username |-> <<>>, password |-> "", invite |-> 0, id |-> 0,
     slug |-> <<>>, display_name |-> <<>>,
     inviteRow |-> NoRow, userId |-> 0, uname |-> <<>>, base |-> <<>>, cand |-> <<>>,
     i |-> 0, after |-> "", newTok |-> 0, admin_id |-> 0, result |-> "",
     outcome |-> "", setCookie |-> NoCookie, wrote |-> <<>>,
     pre |-> [nameTaken |-> FALSE, keyUnused |-> FALSE, banned |-> FALSE]]

Done(r, outcome, ck) == [r EXCEPT !.pc = "done", !.outcome = outcome, !.setCookie = ck]
Goto(r, label) == [r EXCEPT !.pc = label]
Wrote(r, table, key) == [r EXCEPT !.wrote = Append(@, <<table, key>>)]

\* A rejected promise: caught by the try of POST /signup, unhandled elsewhere.
Throw(r) ==
    IF r.op = "POST /signup"
    THEN Done(r, "Username already taken", NoCookie)
    ELSE Done(r, "unhandled", NoCookie)

\* Mutant: requireAuth without its banned check.
requireAuthNoBan(r, next) ==
    IF r.user = NoUser THEN Done(r, "redirect /login", NoCookie) ELSE next

\* requireAuth, then the handler (next)
requireAuth(r, next) ==
    IF r.user = NoUser THEN Done(r, "redirect /login", NoCookie)
    ELSE IF r.user.banned THEN Done(r, "403 Banned", NoCookie)
    ELSE next

\* Mutant: requireAdmin letting every user through.
requireAdminAny(r, next) == next

requireAdmin(r, next) ==
    IF r.user = NoUser \/ r.user.id # AdminId THEN Done(r, "403 Forbidden", NoCookie)
    ELSE next

\* Mutant: the target check without the administrator's id.
rejectsTargetZeroOnly(id) == id = 0

\* if (!id || id === 1) return res.status(400).send("no")
rejectsTarget(id) == id = 0 \/ id = 1

\* The synchronous head of each route, up to its first store statement.
Route(r) ==
    CASE r.op = "POST /signup" ->
           LET u == validateUsername(r.username) IN
           IF u = Null THEN Done(r, "Username: 3-20 chars, a-z 0-9 _", NoCookie)
           ELSE IF Len(r.password) < PasswordMinLen
                THEN Done(r, "Password must be 6+ chars", NoCookie)
                ELSE [r EXCEPT !.pc = "su_invite", !.username = u]
      [] r.op = "POST /login" ->
           [r EXCEPT !.pc = "li_user", !.username = trim(toLowerCase(r.username))]
      [] r.op = "POST /logout" ->
           IF r.tok # NoCookie THEN Goto(r, "lo_sess")
           ELSE Done(r, "redirect /login", ClearCookie)
      [] r.op = "GET /" ->
           IF r.user = NoUser THEN Done(r, "redirect /login", NoCookie)
           ELSE IF r.user.banned THEN Done(r, "403 Banned", NoCookie)
           ELSE Goto(r, "home_page")
      [] r.op = "GET /dashboard" ->
           requireAuth(r, [r EXCEPT !.pc = "ens_sel", !.userId = r.user.id,
                                    !.uname = r.user.username, !.after = "dash_page",
                                    !.result = "dashboard"])
      [] r.op = "POST /dashboard" ->
           requireAuth(r, [r EXCEPT !.pc = "sp_page", !.userId = r.user.id])
      [] r.op = "POST /admin/keys" ->
           requireAuth(r, requireAdmin(r, Goto(r, "ak_ins")))
      [] r.op = "POST /admin/users/:id/ban" ->
           requireAuth(r, requireAdmin(r,
               IF rejectsTarget(r.id) THEN Done(r, "400 no", NoCookie)
               ELSE Goto(r, "ban_upd")))
      [] r.op = "POST /admin/users/:id/unban" ->
           requireAuth(r, requireAdmin(r,
               IF rejectsTarget(r.id) THEN Done(r, "400 no", NoCookie)
               ELSE Goto(r, "unban_upd")))
      [] r.op = "POST /admin/impersonate/:id" ->
           requireAuth(r, requireAdmin(r,
               IF r.id = 0 THEN Done(r, "400 no", NoCookie)
               ELSE Goto(r, "imp_target")))
      [] r.op = "POST /admin/return" ->
           requireAuth(r,
               IF r.tok = NoCookie THEN Done(r, "redirect /dashboard", NoCookie)
               ELSE Goto(r, "ret_row"))

\* getUserFromCookie: without a cookie it returns null before any statement;
\* with one, the request enters the store with SELECT user_id FROM sessions.
Enter(r) ==
    IF r.tok = NoCookie \/ SessionUser(sessions, r.tok) = 0 THEN Route(r)
    ELSE [r EXCEPT !.pc = "mw_user", !.sess_uid = SessionUser(sessions, r.tok)]

Idle(p) == req[p].pc = "idle"
\* budget.left: the requests that may still start; budget.serial: the
\* clients take turns, a request starting only when no other is in flight.
MayStart(p) ==
    /\ Idle(p)
    /\ budget.left > 0
    /\ budget.serial => \A q \in Procs : Idle(q)

Start(p, r) ==
    /\ req' = [req EXCEPT ![p] = Enter(r)]
    /\ budget' = [budget EXCEPT !.left = @ - 1]
    /\ UNCHANGED <<db, cookie, nextTok, ensured>>

Request(op, b) == [IdleReq EXCEPT !.op = op, !.br = b, !.tok = cookie[b]]

Set(p, r) == req' = [req EXCEPT ![p] = r]

(* ----------------------------- middleware ------------------------------ *)

MwSelectUser(p) ==
    /\ req[p].pc = "mw_user"
    /\ LET r == req[p]
       IN Set(p, Route([r EXCEPT !.user = UserById(users, r.sess_uid)]))
    /\ UNCHANGED <<db, cookie, nextTok, budget, ensured>>

\* The response reaches the browser: res.cookie / res.clearCookie take effect.
Respond(p) ==
    /\ req[p].pc = "done"
    /\ cookie' = [cookie EXCEPT ![req[p].br] =
                    IF req[p].setCookie = NoCookie THEN @
                    ELSE IF req[p].setCookie = ClearCookie THEN NoCookie
                    ELSE req[p].setCookie]
    /\ Set(p, IdleReq)
    /\ UNCHANGED <<db, nextTok, budget, ensured>>

(* -------------------------- ensurePageForUser -------------------------- *)

EnsureSelectExisting(p) ==
    /\ req[p].pc = "ens_sel"
    /\ LET r == req[p]
       IN /\ Set(p, IF HasPage(pages, r.userId) THEN Goto(r, r.after)
                 ELSE [r EXCEPT !.pc = "ens_loop", !.base = uniqueSlug(r.uname),
                                !.cand = uniqueSlug(r.uname), !.i = 2])
          /\ ensured' = IF HasPage(pages, r.userId) THEN ensured \cup {r.userId}
                         ELSE ensured
    /\ UNCHANGED <<db, cookie, nextTok, budget>>

\* One evaluation of the while condition of uniqueSlugEnsure and, when it
\* holds, of the loop body.  i is kept at SeqLimit + 1 once it has passed
\* SeqLimit: the code compares it with SeqLimit only.
uniqueSlugEnsureNext(r, limit) ==
    IF r.i + 1 > limit
    THEN {[r EXCEPT !.cand = r.base \o <<"-">> \o x, !.i = limit + 1] : x \in RandomSuffixes}
    ELSE {[r EXCEPT !.cand = r.base \o Dec(r.i), !.i = r.i + 1]}

EnsureSlugLoop(p) ==
    /\ req[p].pc = "ens_loop"
    /\ LET r == req[p]
       IN IF SlugTaken(pages, r.cand)
          THEN \E n \in uniqueSlugEnsureNext(r, SeqLimit) : Set(p, n)
          ELSE Set(p, Goto(r, "ens_ins"))
    /\ UNCHANGED <<db, cookie, nextTok, budget, ensured>>

EnsureInsertPage(p) ==
    /\ req[p].pc = "ens_ins"
    /\ LET r == req[p]
       IN IF PagesInsertAllowed(pages, r.userId, r.cand)
          THEN /\ pages' = pages \cup {[user_id |-> r.userId, slug |-> r.cand,
                                        display_name |-> r.uname]}
               /\ Set(p, Wrote(Goto(r, r.after), "pages", r.userId))
               /\ ensured' = ensured \cup {r.userId}
          ELSE /\ Set(p, Throw(r))
               /\ UNCHANGED <<pages, ensured>>
    /\ UNCHANGED <<users, invite_keys, sessions, impersonations, cookie, nextTok, budget>>

(* ----------------------------- POST /signup ----------------------------- *)

InviteInputs == {0} \cup {k.key : k \in invite_keys}

PostSignup(p) ==
    /\ MayStart(p)
    /\ \E in \in SignupInputs, k \in InviteInputs :
         Start(p, [Request("POST /signup", p) EXCEPT
                     !.username = in[1], !.password = in[2], !.invite = k,
                     !.pre = [nameTaken |-> UserByName(users, validateUsername(in[1])) # NoUser,
                              keyUnused |-> KeyExists(invite_keys, k)
                                            /\ KeyRow(invite_keys, k).used_by = 0,
                              banned |-> FALSE]])

SignupSelectInvite(p) ==
    /\ req[p].pc = "su_invite"
    /\ LET r == req[p]
           row == IF KeyExists(invite_keys, r.invite)
                  THEN KeyRow(invite_keys, r.invite).used_by ELSE NoRow
       IN Set(p, IF row # 0
                 THEN Done([r EXCEPT !.inviteRow = row], "Invalid invite key", NoCookie)
                 ELSE [r EXCEPT !.pc = "su_user", !.inviteRow = row])
    /\ UNCHANGED <<db, cookie, nextTok, budget, ensured>>

SignupInsertUser(p) ==
    /\ req[p].pc = "su_user"
    /\ LET r == req[p]
           id == NextUserId(users)
       IN IF UsersInsertAllowed(users, r.username)
          THEN /\ users' = users \cup {[id |-> id, username |-> r.username,
                                        password_hash |-> bcryptHash(r.password),
                                        banned |-> FALSE]}
               /\ Set(p, Wrote([r EXCEPT !.pc = "su_claim", !.userId = id,
                                         !.uname = r.username], "users", id))
          ELSE /\ Set(p, Throw(r))
               /\ UNCHANGED users
    /\ UNCHANGED <<pages, invite_keys, sessions, impersonations, cookie, nextTok, budget, ensured>>

\* Mutant: the UPDATE that matches no row.
ClaimInviteNoRow(K, key, userId) == K

\* UPDATE invite_keys SET used_by = ?, used_at = ? WHERE key = ?
ClaimInvite(K, key, userId) ==
    {IF k.key = key THEN [k EXCEPT !.used_by = userId] ELSE k : k \in K}

SignupClaimInvite(p) ==
    /\ req[p].pc = "su_claim"
    /\ LET r == req[p]
       IN /\ invite_keys' = ClaimInvite(invite_keys, r.invite, r.userId)
          /\ Set(p, Wrote([r EXCEPT !.pc = "ens_sel", !.after = "su_sess"],
                          "invite_keys", r.invite))
    /\ UNCHANGED <<users, pages, sessions, impersonations, cookie, nextTok, budget, ensured>>

\* INSERT INTO sessions with a fresh nanoid(32) token, then res.cookie
InsertSession(p, uid, outcome) ==
    /\ sessions' = sessions \cup {[token |-> nextTok, user_id |-> uid]}
    /\ nextTok' = nextTok + 1
    /\ Set(p, Done(Wrote([req[p] EXCEPT !.newTok = nextTok], "sessions", nextTok),
                   outcome, nextTok))
    /\ UNCHANGED <<users, pages, invite_keys, impersonations, cookie, budget, ensured>>

SignupInsertSession(p) ==
    /\ req[p].pc = "su_sess"
    /\ InsertSession(p, req[p].userId, "redirect /dashboard")

(* ----------------------------- POST /login ------------------------------ *)

PostLogin(p) ==
    /\ MayStart(p)
    /\ \E in \in LoginInputs :
         Start(p, [Request("POST /login", p) EXCEPT !.username = in[1], !.password = in[2]])

\* Mutant: the login checks without the banned check.
loginChecksNoBan(r, user) ==
    LET seen == [r EXCEPT !.found = user]
    IN IF user = NoUser THEN Done(seen, "Invalid login", NoCookie)
       ELSE IF ~bcryptCompare(r.password, user.password_hash)
            THEN Done(seen, "Invalid login", NoCookie)
            ELSE [seen EXCEPT !.pc = "ens_sel", !.userId = user.id,
                              !.uname = user.username, !.after = "li_sess"]

\* The checks of POST /login on the row its SELECT returned (NoUser: none).
loginChecks(r, user) ==
    LET seen == [r EXCEPT !.found = user]
    IN IF user = NoUser THEN Done(seen, "Invalid login", NoCookie)
       ELSE IF user.banned THEN Done(seen, "Banned", NoCookie)
       ELSE IF ~bcryptCompare(r.password, user.password_hash)
            THEN Done(seen, "Invalid login", NoCookie)
            ELSE [seen EXCEPT !.pc = "ens_sel", !.userId = user.id,
                              !.uname = user.username, !.after = "li_sess"]

LoginSelectUser(p) ==
    /\ req[p].pc = "li_user"
    /\ Set(p, loginChecks(req[p], UserByName(users, req[p].username)))
    /\ UNCHANGED <<db, cookie, nextTok, budget, ensured>>

LoginInsertSession(p) ==
    /\ req[p].pc = "li_sess"
    /\ InsertSession(p, req[p].userId, "redirect /dashboard")

(* ----------------------------- POST /logout ----------------------------- *)

PostLogout(p) ==
    /\ MayStart(p)
    /\ Start(p, Request("POST /logout", p))

\* A signed cookie the server issued earlier and whose Session row is gone
\* (the browser or a proxy kept it), or one signed for a token no row ever held.
UnknownToken == 99
StaleTokens == {t \in 1..(nextTok - 1) : SessionUser(sessions, t) = 0} \cup {UnknownToken}

PostLogoutStale(p) ==
    /\ MayStart(p)
    /\ \E t \in StaleTokens : Start(p, [Request("POST /logout", p) EXCEPT !.tok = t])

\* Mutant: DELETE without its WHERE token = ?.
DeleteTokenAll(T, t) == {}

DeleteToken(T, t) == {s \in T : s.token # t}
Deleted(r, T, table) == IF DeleteToken(T, r.tok) # T THEN Wrote(r, table, r.tok) ELSE r

LogoutDeleteSession(p) ==
    /\ req[p].pc = "lo_sess"
    /\ sessions' = DeleteToken(sessions, req[p].tok)
    /\ Set(p, Goto(Deleted(req[p], sessions, "sessions"), "lo_imp"))
    /\ UNCHANGED <<users, pages, invite_keys, impersonations, cookie, nextTok, budget, ensured>>

LogoutDeleteImpersonation(p) ==
    /\ req[p].pc = "lo_imp"
    /\ impersonations' = DeleteToken(impersonations, req[p].tok)
    /\ Set(p, Done(Deleted(req[p], impersonations, "impersonations"),
                   "redirect /login", ClearCookie))
    /\ UNCHANGED <<users, pages, invite_keys, sessions, cookie, nextTok, budget, ensured>>

(* -------------------------------- GET / --------------------------------- *)

GetHome(p) ==
    /\ MayStart(p)
    /\ Start(p, Request("GET /", p))

HomeSelectPage(p) ==
    /\ req[p].pc = "home_page"
    /\ Set(p, Done(req[p], IF HasPage(pages, req[p].user.id) THEN "redirect /:slug"
                           ELSE "redirect /dashboard", NoCookie))
    /\ UNCHANGED <<db, cookie, nextTok, budget, ensured>>

(* ------------------------------ /dashboard ------------------------------ *)

GetDashboard(p) ==
    /\ MayStart(p)
    /\ Start(p, Request("GET /dashboard", p))

PostDashboard(p) ==
    /\ MayStart(p)
    /\ \E s \in SlugInputs, d \in DisplayNameInputs :
         Start(p, [Request("POST /dashboard", p) EXCEPT !.slug = s, !.display_name = d])

\* savePageForUser: SELECT * FROM pages WHERE user_id = ?, then validateSlug
SavePageSelectPage(p) ==
    /\ req[p].pc = "sp_page"
    /\ LET r == req[p]
           slug == validateSlug(IF r.slug # <<>> THEN r.slug
                                ELSE PageOf(pages, r.userId).slug)
       IN Set(p, IF ~HasPage(pages, r.userId)
                 THEN [r EXCEPT !.pc = "dash_page", !.result = "No page"]
                 ELSE IF slug = Null
                      THEN [r EXCEPT !.pc = "dash_page",
                                     !.result = "Slug must be 2-32: a-z 0-9 _ -"]
                      ELSE [r EXCEPT !.pc = "sp_owner", !.cand = slug])
    /\ UNCHANGED <<db, cookie, nextTok, budget, ensured>>

SavePageSelectOwner(p) ==
    /\ req[p].pc = "sp_owner"
    /\ LET r == req[p]
           owner == SlugOwner(pages, r.cand)
       IN Set(p, IF owner # 0 /\ owner # r.userId
                 THEN [r EXCEPT !.pc = "dash_page", !.result = "That slug is taken"]
                 ELSE Goto(r, "sp_upd"))
    /\ UNCHANGED <<db, cookie, nextTok, budget, ensured>>

\* UPDATE pages SET slug = ?, display_name = ?, ... WHERE user_id = ?
UpdatePage(P, uid, slug, name) ==
    {IF r.user_id = uid THEN [r EXCEPT !.slug = slug, !.display_name = name] ELSE r
       : r \in P}

SavePageUpdate(p) ==
    /\ req[p].pc = "sp_upd"
    /\ LET r == req[p]
       IN IF PagesUpdateAllowed(pages, r.userId, r.cand)
          THEN /\ pages' = UpdatePage(pages, r.userId, r.cand,
                                      slice(trim(r.display_name), DisplayNameMaxLen))
               /\ Set(p, Wrote([r EXCEPT !.pc = "dash_page", !.result = "Saved"],
                               "pages", r.userId))
          ELSE /\ Set(p, Throw(r))
               /\ UNCHANGED pages
    /\ UNCHANGED <<users, invite_keys, sessions, impersonations, cookie, nextTok, budget, ensured>>

\* SELECT * FROM pages WHERE user_id = ?, then JSON.parse(page.links_json)
DashboardSelectPage(p) ==
    /\ req[p].pc = "dash_page"
    /\ Set(p, IF HasPage(pages, req[p].user.id) THEN Goto(req[p], "dash_imp")
              ELSE Throw(req[p]))
    /\ UNCHANGED <<db, cookie, nextTok, budget, ensured>>

\* isImpersonating, then res.render
DashboardIsImpersonating(p) ==
    /\ req[p].pc = "dash_imp"
    /\ Set(p, Done(req[p], req[p].result, NoCookie))
    /\ UNCHANGED <<db, cookie, nextTok, budget, ensured>>

(* ------------------------------- /admin --------------------------------- *)

PostAdminKeys(p) ==
    /\ MayStart(p)
    /\ Start(p, Request("POST /admin/keys", p))

\* nanoid(10).toUpperCase(): a key no row holds yet
AdminInsertKey(p) ==
    /\ req[p].pc = "ak_ins"
    /\ LET k == MaxOf({r.key : r \in invite_keys}) + 1
       IN /\ invite_keys' = invite_keys \cup
                              {[key |-> k, created_by |-> req[p].user.id, used_by |-> 0]}
          /\ Set(p, Done(Wrote(req[p], "invite_keys", k), "redirect /admin/keys", NoCookie))
    /\ UNCHANGED <<users, pages, sessions, impersonations, cookie, nextTok, budget, ensured>>

PostAdminBan(p) ==
    /\ MayStart(p)
    /\ \E id \in IdInputs :
         Start(p, [Request("POST /admin/users/:id/ban", p) EXCEPT !.id = id])

PostAdminUnban(p) ==
    /\ MayStart(p)
    /\ \E id \in IdInputs :
         Start(p, [Request("POST /admin/users/:id/unban", p) EXCEPT !.id = id])

\* UPDATE users SET banned = ? WHERE id = ?
SetBanned(U, id, flag) ==
    {IF u.id = id THEN [u EXCEPT !.banned = flag] ELSE u : u \in U}

AdminBanUpdate(p) ==
    /\ req[p].pc = "ban_upd"
    /\ users' = SetBanned(users, req[p].id, TRUE)
    /\ Set(p, Done(IF users' # users THEN Wrote(req[p], "users", req[p].id) ELSE req[p],
                   "redirect /admin/users", NoCookie))
    /\ UNCHANGED <<pages, invite_keys, sessions, impersonations, cookie, nextTok, budget, ensured>>

AdminUnbanUpdate(p) ==
    /\ req[p].pc = "unban_upd"
    /\ users' = SetBanned(users, req[p].id, FALSE)
    /\ Set(p, Done(IF users' # users THEN Wrote(req[p], "users", req[p].id) ELSE req[p],
                   "redirect /admin/users", NoCookie))
    /\ UNCHANGED <<pages, invite_keys, sessions, impersonations, cookie, nextTok, budget, ensured>>

PostAdminImpersonate(p) ==
    /\ MayStart(p)
    /\ \E id \in IdInputs :
         Start(p, [Request("POST /admin/impersonate/:id", p) EXCEPT !.id = id])

ImpersonateSelectTarget(p) ==
    /\ req[p].pc = "imp_target"
    /\ Set(p, IF UserById(users, req[p].id) = NoUser
              THEN Done(req[p], "404 not found", NoCookie)
              ELSE Goto(req[p], "imp_sess"))
    /\ UNCHANGED <<db, cookie, nextTok, budget, ensured>>

ImpersonateInsertSession(p) ==
    /\ req[p].pc = "imp_sess"
    /\ sessions' = sessions \cup {[token |-> nextTok, user_id |-> req[p].id]}
    /\ nextTok' = nextTok + 1
    /\ Set(p, Wrote([req[p] EXCEPT !.pc = "imp_row", !.newTok = nextTok],
                    "sessions", nextTok))
    /\ UNCHANGED <<users, pages, invite_keys, impersonations, cookie, budget, ensured>>

\* Mutant: the impersonation replaces the administrator's own session.
ImpersonateSwapRow(p) ==
    /\ req[p].pc = "imp_row"
    /\ impersonations' = impersonations \cup
                           {[token |-> req[p].newTok, admin_user_id |-> req[p].user.id]}
    /\ sessions' = {s \in sessions : s.token # req[p].tok}
    /\ Set(p, Done(Wrote(req[p], "impersonations", req[p].newTok),
                   "redirect /dashboard", req[p].newTok))
    /\ UNCHANGED <<users, pages, invite_keys, cookie, nextTok, budget, ensured>>

ImpersonateInsertRow(p) ==
    /\ req[p].pc = "imp_row"
    /\ impersonations' = impersonations \cup
                           {[token |-> req[p].newTok, admin_user_id |-> req[p].user.id]}
    /\ Set(p, Done(Wrote(req[p], "impersonations", req[p].newTok),
                   "redirect /dashboard", req[p].newTok))
    /\ UNCHANGED <<users, pages, invite_keys, sessions, cookie, nextTok, budget, ensured>>

PostAdminReturn(p) ==
    /\ MayStart(p)
    /\ Start(p, Request("POST /admin/return", p))

ReturnSelectRow(p) ==
    /\ req[p].pc = "ret_row"
    /\ LET a == ImpersonationAdmin(impersonations, req[p].tok)
       IN Set(p, IF a = 0 THEN Done(req[p], "redirect /dashboard", NoCookie)
                 ELSE [req[p] EXCEPT !.pc = "ret_sess", !.admin_id = a])
    /\ UNCHANGED <<db, cookie, nextTok, budget, ensured>>

ReturnDeleteSession(p) ==
    /\ req[p].pc = "ret_sess"
    /\ sessions' = DeleteToken(sessions, req[p].tok)
    /\ Set(p, Goto(Deleted(req[p], sessions, "sessions"), "ret_imp"))
    /\ UNCHANGED <<users, pages, invite_keys, impersonations, cookie, nextTok, budget, ensured>>

ReturnDeleteImpersonation(p) ==
    /\ req[p].pc = "ret_imp"
    /\ impersonations' = DeleteToken(impersonations, req[p].tok)
    /\ Set(p, Goto(Deleted(req[p], impersonations, "impersonations"), "ret_new"))
    /\ UNCHANGED <<users, pages, invite_keys, sessions, cookie, nextTok, budget, ensured>>

ReturnInsertSession(p) ==
    /\ req[p].pc = "ret_new"
    /\ InsertSession(p, req[p].admin_id, "redirect /admin/users")

(* --------------------------- specifications ----------------------------- *)

\* The store after migrate() and the admin seeding script; no request yet.
InitStore ==
    /\ users = {[id |-> AdminId, username |-> AdminName,
                 password_hash |-> bcryptHash(AdminPassword), banned |-> FALSE]}
    /\ pages = {}
    /\ invite_keys = {}
    /\ sessions = {}
    /\ impersonations = {}
    /\ cookie = [p \in Procs |-> NoCookie]
    /\ req = [p \in Procs |-> IdleReq]
    /\ nextTok = 1
    /\ ensured = {}

Init == InitStore /\ budget = [left |-> MaxRequests, serial |-> FALSE]

Step(p) ==
    \/ PostSignup(p) \/ SignupSelectInvite(p) \/ SignupInsertUser(p)
    \/ SignupClaimInvite(p) \/ SignupInsertSession(p)
    \/ PostLogin(p) \/ LoginSelectUser(p) \/ LoginInsertSession(p)
    \/ PostLogout(p) \/ PostLogoutStale(p) \/ LogoutDeleteSession(p) \/ LogoutDeleteImpersonation(p)
    \/ GetHome(p) \/ HomeSelectPage(p)
    \/ GetDashboard(p) \/ PostDashboard(p)
    \/ SavePageSelectPage(p) \/ SavePageSelectOwner(p) \/ SavePageUpdate(p)
    \/ DashboardSelectPage(p) \/ DashboardIsImpersonating(p)
    \/ PostAdminKeys(p) \/ AdminInsertKey(p)
    \/ PostAdminBan(p) \/ AdminBanUpdate(p)
    \/ PostAdminUnban(p) \/ AdminUnbanUpdate(p)
    \/ PostAdminImpersonate(p) \/ ImpersonateSelectTarget(p)
    \/ ImpersonateInsertSession(p) \/ ImpersonateInsertRow(p)
    \/ PostAdminReturn(p) \/ ReturnSelectRow(p) \/ ReturnDeleteSession(p)
    \/ ReturnDeleteImpersonation(p) \/ ReturnInsertSession(p)
    \/ MwSelectUser(p)
    \/ EnsureSelectExisting(p) \/ EnsureSlugLoop(p) \/ EnsureInsertPage(p)
    \/ Respond(p)

\* Requests of concurrent connections, interleaved statement by statement.
Next == \E p \in Procs : Step(p)
Spec == Init /\ [][Next]_vars

\* One request at a time: no other request interleaved.
InitSeq == InitStore /\ budget = [left |-> MaxSeqRequests, serial |-> TRUE]
SpecSeq == InitSeq /\ [][Next]_vars

(* ----------------------- the slug search on its own --------------------- *)
\* uniqueSlugEnsure as a function of the pages table: the administrator, who
\* has no Page yet, requests GET /dashboard against a table that other users
\* filled (by page edits) with any of the slugs the search may try.

\* The slugs the table may hold: the base, the numbered candidates up to one
\* past the sequential limit, and one of the random-suffix candidates.
SlugCandidates ==
    <<AdminName>> \o [k \in 1..SlugSeqLimit |-> AdminName \o Dec(k + 1)]
                 \o << AdminName \o <<"-","x">> >>

SlugTable(S) ==
    {[user_id |-> k + 1, slug |-> SlugCandidates[k], display_name |-> <<"u">>] : k \in S}

InitSlug ==
    /\ \E S \in SUBSET DOMAIN SlugCandidates :
         /\ pages = SlugTable(S)
         /\ users = {[id |-> AdminId, username |-> AdminName,
                      password_hash |-> bcryptHash(AdminPassword), banned |-> FALSE]}
                    \cup {[id |-> k + 1, username |-> <<"u","s","e","r">> \o Dec(k + 1),
                           password_hash |-> bcryptHash("secret"), banned |-> FALSE]
                          : k \in S}
    /\ invite_keys = {}
    /\ sessions = {[token |-> 1, user_id |-> AdminId]}
    /\ impersonations = {}
    /\ cookie = [p \in Procs |-> IF p = "p1" THEN 1 ELSE NoCookie]
    /\ req = [p \in Procs |->
                IF p = "p1"
                THEN Route([IdleReq EXCEPT !.op = "GET /dashboard", !.br = "p1", !.tok = 1,
                                           !.sess_uid = AdminId,
                                           !.user = UserById(users, AdminId)])
                ELSE IdleReq]
    /\ nextTok = 2
    /\ budget = [left |-> 0, serial |-> TRUE]
    /\ ensured = {}

\* EnsureSlugLoop with the scaled limit; x is the suffix nanoid draws when
\* the fallback is taken.
SlugSearchWith(p, x) ==
    /\ req[p].pc = "ens_loop"
    /\ LET r == req[p]
       IN IF SlugTaken(pages, r.cand)
          THEN \E n \in uniqueSlugEnsureNext(r, SlugSeqLimit) :
                 /\ n.i > SlugSeqLimit => n.cand = r.base \o <<"-">> \o x
                 /\ Set(p, n)
          ELSE Set(p, Goto(r, "ens_ins"))
    /\ UNCHANGED <<db, cookie, nextTok, budget, ensured>>

SlugSearch(p) == \E x \in RandomSuffixes : SlugSearchWith(p, x)

NextSlug ==
    \E p \in Procs : EnsureSelectExisting(p) \/ SlugSearch(p) \/ EnsureInsertPage(p)

\* The event loop resumes every awaited statement, and nanoid draws every
\* suffix with positive probability.
SlugFair ==
    \A p \in Procs :
      /\ WF_vars(EnsureSelectExisting(p))
      /\ WF_vars(EnsureInsertPage(p))
      /\ \A x \in RandomSuffixes : WF_vars(SlugSearchWith(p, x))

SpecSlug == InitSlug /\ [][NextSlug]_vars /\ SlugFair

(* ------------------------------- claims --------------------------------- *)

Finished(p) == req[p].pc = "done"
\* The step is one of client p's request.
Acting(p) == req'[p] # req[p]
ValidSignup(r) ==
    /\ r.op = "POST /signup"
    /\ validateUsername(r.username) # Null
    /\ Len(r.password) >= PasswordMinLen

C1_SignupCreates ==
    \A p \in Procs : LET r == req[p] IN
      (Finished(p) /\ ValidSignup(r)) =>
        /\ (~r.pre.nameTaken /\ r.pre.keyUnused) =>
             /\ r.outcome = "redirect /dashboard"
             /\ r.wrote = << <<"users", r.userId>>, <<"invite_keys", r.invite>>,
                             <<"pages", r.userId>>, <<"sessions", r.newTok>> >>
             /\ {u \in users : u.id = r.userId \/ u.username = r.username}
                  = {[id |-> r.userId, username |-> r.username,
                      password_hash |-> bcryptHash(r.password), banned |-> FALSE]}
             /\ Cardinality({g \in pages : g.user_id = r.userId}) = 1
             /\ {x \in sessions : x.user_id = r.userId \/ x.token = r.newTok}
                  = {[token |-> r.newTok, user_id |-> r.userId]}
             /\ KeyRow(invite_keys, r.invite).used_by = r.userId
             /\ r.setCookie = r.newTok
        /\ (KeyExists(invite_keys, r.invite) /\ ~r.pre.keyUnused) =>
             /\ r.outcome = "Invalid invite key"
             /\ r.wrote = <<>>

\* The invite-key rows that are used are left as they are.
UsedKeysKept == \A k \in invite_keys : k.used_by # 0 => k \in invite_keys'

\* C1: with no other request interleaved, a POST /signup with a valid, free
\* username, a password of 6+ characters and an unused invite key creates
\* exactly one User, one Page of that user, one Session of that user and
\* marks the key used_by the new user; a key once used stays used, and a
\* signup presenting a used key ends 'Invalid invite key' and writes no row.
C1_SignupOnce == []C1_SignupCreates /\ [][UsedKeysKept]_vars

\* A later signup is refused a key that a completed signup consumed.
C1_Witness ==
    \E p \in Procs : LET r == req[p] IN
      /\ Finished(p) /\ ValidSignup(r) /\ r.outcome = "Invalid invite key"
      /\ KeyExists(invite_keys, r.invite)
      /\ LET u == KeyRow(invite_keys, r.invite).used_by
         IN u # 0 /\ HasPage(pages, u) /\ \E x \in sessions : x.user_id = u

C2_NoTwoUsersForOneKey ==
    \A p, q \in Procs :
      (p # q /\ req[p].op = "POST /signup" /\ req[q].op = "POST /signup"
         /\ req[p].invite = req[q].invite) => (req[p].userId = 0 \/ req[q].userId = 0)

\* C2: under any interleaving of concurrent signups every invite key is
\* consumed exactly once: used_by is written at most once and at most one
\* User is created by the signups that present the key.
C2_InviteConsumedOnce == []C2_NoTwoUsersForOneKey /\ [][UsedKeysKept]_vars

C3_TakenOutcome ==
    \A p \in Procs : LET r == req[p] IN
      (Finished(p) /\ ValidSignup(r) /\ r.pre.nameTaken /\ r.inviteRow = 0) =>
        (r.outcome = "Username already taken" /\ r.wrote = <<>> /\ r.setCookie = NoCookie)

C3_TakenWritesNothing ==
    \A p \in Procs :
      (Acting(p) /\ req'[p].op = "POST /signup" /\ req'[p].pre.nameTaken) => db' = db

\* C3: a signup whose normalized username belongs to an existing User, with
\* a valid password and an unused invite key, ends 'Username already taken'
\* and none of its steps changes users, pages, sessions or invite_keys.
C3_TakenUsername == []C3_TakenOutcome /\ [][C3_TakenWritesNothing]_vars

C3_Witness ==
    \E p \in Procs : LET r == req[p] IN
      /\ Finished(p) /\ ValidSignup(r) /\ r.pre.nameTaken /\ r.inviteRow = 0
      /\ r.outcome = "Username already taken"
      /\ KeyRow(invite_keys, r.invite).used_by = 0

\* C4: in every reachable state, whatever the interleaving of page creations
\* and page edits, no two Page rows share a slug and no user has two Page rows.
C4_PagesUnique ==
    \A g, h \in pages : g # h => (g.slug # h.slug /\ g.user_id # h.user_id)

\* Two pages exist and a page edit that raced for a slug was rejected.
C4_Witness ==
    /\ Cardinality(pages) >= 2
    /\ \E p \in Procs : /\ Finished(p) /\ req[p].op = "POST /dashboard"
                        /\ req[p].outcome = "unhandled"
                        /\ SlugOwner(pages, req[p].cand) \notin {0, req[p].userId}

C5_OnePage ==
    \A u \in ensured : Cardinality({g \in pages : g.user_id = u}) = 1

C5_SecondCallNoop ==
    \A p \in Procs :
      (Acting(p) /\ req[p].pc = "ens_sel" /\ req[p].userId \in ensured) =>
        (db' = db /\ req'[p].pc = req[p].after)

\* C5: ensurePageForUser is idempotent: once a call for a user has returned,
\* that user has exactly one Page row, and a later call returns at its
\* existence check, changing no row of any table.
C5_EnsureIdempotent == []C5_OnePage /\ [][C5_SecondCallNoop]_vars

\* GET /dashboard of a logged-in user: the second call, which wrote nothing.
C5_Witness ==
    \E p \in Procs : /\ req[p].op = "GET /dashboard" /\ req[p].pc = "dash_page"
                     /\ req[p].userId \in ensured /\ req[p].wrote = <<>>

\* C6: a POST /login with the correct password of an existing, non-banned
\* user always ends with a new Session row of that user, whose token is the
\* session cookie set.
C6_LoginYieldsSession ==
    \A p \in Procs : LET r == req[p] IN
      (Finished(p) /\ r.op = "POST /login" /\ r.found # NoUser /\ ~r.found.banned
         /\ r.found.password_hash = bcryptHash(r.password)) =>
        /\ r.outcome = "redirect /dashboard"
        /\ r.found.username = r.username
        /\ [token |-> r.newTok, user_id |-> r.found.id] \in sessions
        /\ r.setCookie = r.newTok /\ r.newTok # 0

WrongPassword(r) ==
    /\ r.op = "POST /login"
    /\ r.found = NoUser \/ r.found.password_hash # bcryptHash(r.password)

\* C7 as stated: a POST /login with an incorrect password ends 'Invalid
\* login' whether the username does not exist or exists in any ban state,
\* and creates no session.
C7_Original ==
    \A p \in Procs : LET r == req[p] IN
      (Finished(p) /\ WrongPassword(r)) =>
        (r.outcome = "Invalid login" /\ r.wrote = <<>> /\ r.setCookie = NoCookie)

\* C7 amended: a POST /login with an incorrect password ends 'Invalid login'
\* whether the username does not exist or belongs to a user who is not
\* banned, ends 'Banned' for a banned user, and never creates a session.
C7_WrongPassword ==
    \A p \in Procs : LET r == req[p] IN
      (Finished(p) /\ WrongPassword(r)) =>
        /\ r.outcome = IF r.found.banned THEN "Banned" ELSE "Invalid login"
        /\ r.wrote = <<>> /\ r.setCookie = NoCookie

\* A wrong password for an existing user who is not banned.
C7_Witness ==
    \E p \in Procs : /\ Finished(p) /\ WrongPassword(req[p])
                     /\ req[p].found # NoUser /\ ~req[p].found.banned

\* C8: a POST /login for a user whose banned flag is set ends 'Banned',
\* whether or not the password is correct, and creates no Session, no Page
\* and sets no cookie.
C8_BannedLogin ==
    \A p \in Procs : LET r == req[p] IN
      (r.op = "POST /login" /\ r.found.banned) =>
        /\ Finished(p) /\ r.outcome = "Banned"
        /\ r.wrote = <<>> /\ r.setCookie = NoCookie /\ r.newTok = 0

\* A banned user submits the correct password.
C8_Witness ==
    \E p \in Procs : LET r == req[p] IN
      /\ Finished(p) /\ r.op = "POST /login" /\ r.found.banned
      /\ r.found.password_hash = bcryptHash(r.password)

\* The routes behind requireAuth, and GET / with the same two checks inline.
GatedRoutes ==
    {"GET /", "GET /dashboard", "POST /dashboard", "POST /admin/keys",
     "POST /admin/users/:id/ban", "POST /admin/users/:id/unban",
     "POST /admin/impersonate/:id", "POST /admin/return"}

\* The request of client p came with a token whose session row was found,
\* and has read the row of the session's user.
Resolved(p) == req[p].sess_uid # 0 /\ req[p].pc \notin {"idle", "mw_user"}
Owner(p) == UserById(users, req[p].sess_uid)

\* C9 as stated: banning deletes no Session row and, while the user is
\* banned, any request made with one of the user's session tokens is
\* answered 403 'Banned' and performs no operation.
C9_Original ==
    \A p \in Procs : LET r == req[p] IN
      (Finished(p) /\ Resolved(p) /\ Owner(p).banned) =>
        (r.outcome = "403 Banned" /\ r.wrote = <<>>)

C9_BanKeepsSessions ==
    \A p \in Procs :
      (Acting(p) /\ req[p].pc \in {"ban_upd", "unban_upd"}) =>
        /\ sessions' = sessions
        /\ {[u EXCEPT !.banned = FALSE] : u \in users'}
             = {[u EXCEPT !.banned = FALSE] : u \in users}

C9_BannedRejected ==
    \A p \in Procs : LET r == req[p] IN
      (Resolved(p) /\ Owner(p).banned /\ r.op \in GatedRoutes) =>
        /\ Finished(p) /\ r.outcome = "403 Banned"
        /\ r.wrote = <<>> /\ r.setCookie = NoCookie

C9_UnbannedServed ==
    \A p \in Procs : LET r == req[p] IN
      (Finished(p) /\ Resolved(p) /\ ~Owner(p).banned /\ r.op \in GatedRoutes) =>
        /\ r.user = Owner(p)
        /\ r.outcome \notin {"403 Banned", "redirect /login"}

\* C9 amended: banning or unbanning a user deletes no Session row; while the
\* user is banned, a request to a route behind requireAuth (or GET /) made
\* with one of the user's session tokens is answered 403 'Banned' and
\* performs no operation, whereas POST /logout, POST /login and POST /signup
\* are not gated; whenever the user is not banned, such a request with a
\* token whose Session row exists is served as that user, without a login.
C9_BanGate ==
    /\ [](C9_BannedRejected /\ C9_UnbannedServed)
    /\ [][C9_BanKeepsSessions]_vars

\* A banned user's page edit is refused while the session row is still there.
C9_Witness ==
    \E p \in Procs : LET r == req[p] IN
      /\ Finished(p) /\ r.op = "POST /dashboard" /\ r.outcome = "403 Banned"
      /\ Owner(p).banned /\ Owner(p).id # AdminId
      /\ SessionUser(sessions, r.tok) = r.sess_uid /\ r.sess_uid # 0

\* C10: after POST /admin/impersonate/U and POST /admin/return with the
\* cookie the impersonation issued, the administrator's cookie holds a token
\* of a Session whose user_id is the administrator, and the Session and
\* Impersonation rows of the impersonation token are gone.
C10_ReturnRestoresAdmin ==
    \A p \in Procs : LET r == req[p]
                         kept == ImpersonationAdmin(impersonations, r.tok)
                         a == IF r.admin_id # 0 THEN r.admin_id ELSE kept IN
      (Finished(p) /\ r.op = "POST /admin/return" /\ a # 0) =>
        /\ r.outcome = "redirect /admin/users"
        /\ r.setCookie = r.newTok /\ r.newTok # 0
        /\ SessionUser(sessions, r.newTok) = a
        /\ SessionUser(sessions, r.tok) = 0
        /\ kept = 0

Tokens(T) == {x.token : x \in T}

C11_ImpersonateOutcome ==
    \A p \in Procs : LET r == req[p] IN
      (Finished(p) /\ r.op = "POST /admin/impersonate/:id") =>
        /\ r.outcome = "redirect /dashboard" =>
             /\ r.user.id = AdminId /\ r.id # 0
             /\ r.wrote = << <<"sessions", r.newTok>>, <<"impersonations", r.newTok>> >>
             /\ {x \in sessions : x.token = r.newTok}
                  = {[token |-> r.newTok, user_id |-> r.id]}
             /\ {x \in impersonations : x.token = r.newTok}
                  = {[token |-> r.newTok, admin_user_id |-> AdminId]}
             /\ r.newTok # r.tok
             /\ SessionUser(sessions, r.tok) = AdminId
             /\ r.setCookie = r.newTok
        /\ r.outcome = "404 not found" => (r.wrote = <<>> /\ r.newTok = 0)
        /\ (r.user.id = AdminId /\ r.id # 0 /\ UserById(users, r.id) = NoUser) =>
             r.outcome = "404 not found"

C11_ImpersonateFrame ==
    \A p \in Procs :
      (Acting(p) /\ req[p].op = "POST /admin/impersonate/:id") =>
        /\ UNCHANGED <<users, pages, invite_keys>>
        /\ sessions \subseteq sessions' /\ impersonations \subseteq impersonations'
        /\ req[p].pc = "imp_sess" =>
             /\ Cardinality(sessions' \ sessions) = 1 /\ impersonations' = impersonations
             /\ Tokens(sessions' \ sessions) \cap (Tokens(sessions) \cup Tokens(impersonations)) = {}
        /\ req[p].pc = "imp_row" =>
             (Cardinality(impersonations' \ impersonations) = 1 /\ sessions' = sessions)
        /\ req[p].pc \notin {"imp_sess", "imp_row"} => db' = db

\* C11: a successful POST /admin/impersonate/:id adds exactly one Session row
\* (fresh token, user_id = target) and one Impersonation row (same token,
\* admin_user_id = the administrator) and changes no other row: every Session
\* that existed, the administrator's own included, is still there; for a
\* target that does not exist the request ends 404 and adds no row.
C11_ImpersonateLayers == []C11_ImpersonateOutcome /\ [][C11_ImpersonateFrame]_vars

\* The administrator impersonates another user and keeps the own session.
C11_Witness ==
    \E p \in Procs : LET r == req[p] IN
      /\ Finished(p) /\ r.op = "POST /admin/impersonate/:id"
      /\ r.outcome = "redirect /dashboard" /\ r.id # AdminId
      /\ SessionUser(sessions, r.tok) = AdminId
      /\ SessionUser(sessions, r.newTok) = r.id

C12_LogoutOutcome ==
    \A p \in Procs : LET r == req[p] IN
      (Finished(p) /\ r.op = "POST /logout") =>
        /\ r.outcome = "redirect /login" /\ r.setCookie = ClearCookie
        /\ r.tok # NoCookie =>
             /\ SessionUser(sessions, r.tok) = 0
             /\ ImpersonationAdmin(impersonations, r.tok) = 0
        /\ \A w \in Range(r.wrote) : w \in {<<"sessions", r.tok>>, <<"impersonations", r.tok>>}

C12_LogoutFrame ==
    \A p \in Procs : LET r == req[p] IN
      (Acting(p) /\ r.op = "POST /logout") =>
        /\ UNCHANGED <<users, pages, invite_keys>>
        /\ sessions' = {x \in sessions : x.token # r.tok \/ r.pc # "lo_sess"}
        /\ impersonations' = {x \in impersonations : x.token # r.tok \/ r.pc # "lo_imp"}
        /\ (r.tok \notin Tokens(sessions) \cup Tokens(impersonations)) => db' = db

\* C12: POST /logout with session token t removes the Session row of t and,
\* if present, the Impersonation row of t, and leaves every other row of
\* every table as it is; afterwards t resolves to no user, and a logout with
\* a token that has no row (one already logged out, or one that never
\* existed) changes nothing.
C12_LogoutDestroys == []C12_LogoutOutcome /\ [][C12_LogoutFrame]_vars

\* A second logout with a token whose first logout removed a row and left
\* another session in place.
C12_Witness ==
    \E p \in Procs : LET r == req[p] IN
      /\ Finished(p) /\ r.op = "POST /logout" /\ r.wrote = <<>>
      /\ r.tok \in 1..(nextTok - 1) /\ sessions # {}

BanRoutes == {"POST /admin/users/:id/ban", "POST /admin/users/:id/unban"}

C13_AdminNotBanned == \A u \in users : u.id = 1 => ~u.banned

C13_TargetOneRejected ==
    \A p \in Procs : LET r == req[p] IN
      (r.op \in BanRoutes /\ r.id = 1 /\ r.pc \notin {"idle", "mw_user"}) =>
        /\ Finished(p) /\ r.wrote = <<>>
        /\ r.user.id = AdminId => r.outcome = "400 no"

C13_TargetOneFrame ==
    \A p \in Procs :
      (Acting(p) /\ req[p].op \in BanRoutes /\ req[p].id = 1) => users' = users

\* C13: in every reachable state the user with id 1 has banned = false: a
\* ban or unban request of the administrator whose target id is 1 is
\* answered 400 and leaves the users table unchanged, and no other operation
\* sets the banned flag of user 1.
C13_AdminNeverBanned ==
    /\ [](C13_AdminNotBanned /\ C13_TargetOneRejected)
    /\ [][C13_TargetOneFrame]_vars

\* The administrator asks to ban user 1 while another user is banned.
C13_Witness ==
    /\ \E u \in users : u.banned
    /\ \E p \in Procs : LET r == req[p] IN
         /\ Finished(p) /\ r.op = "POST /admin/users/:id/ban" /\ r.id = 1
         /\ r.user.id = AdminId /\ r.outcome = "400 no"

\* The admin-only routes that write: mint invite key, ban, unban, impersonate.
AdminRoutes == BanRoutes \cup {"POST /admin/keys", "POST /admin/impersonate/:id"}

C14_AdminRows ==
    /\ \A k \in invite_keys : k.created_by = 1
    /\ \A x \in impersonations : x.admin_user_id = 1

C14_OthersRefused ==
    \A p \in Procs : LET r == req[p] IN
      (Finished(p) /\ r.op \in AdminRoutes /\ r.sess_uid # 1) =>
        /\ r.wrote = <<>> /\ r.setCookie = NoCookie
        /\ r.outcome = IF r.sess_uid = 0 THEN "redirect /login"
                       ELSE IF r.user.banned THEN "403 Banned" ELSE "403 Forbidden"

C14_OthersWriteNothing ==
    \A p \in Procs :
      (Acting(p) /\ req'[p].op \in AdminRoutes /\ req'[p].sess_uid # 1) => db' = db

\* C14: mint invite key, ban, unban and impersonate take effect only when the
\* request's session token resolves to the user with id 1; requested with no
\* session or with a session of any other user, a session obtained by
\* impersonating that user included, they change no state.  Hence every
\* invite key has created_by = 1 and every Impersonation row admin_user_id = 1.
C14_AdminOnly == [](C14_AdminRows /\ C14_OthersRefused) /\ [][C14_OthersWriteNothing]_vars

\* The administrator, acting under an impersonation session, is refused.
C14_Witness ==
    \E p \in Procs : LET r == req[p] IN
      /\ Finished(p) /\ r.op \in AdminRoutes /\ r.outcome = "403 Forbidden"
      /\ r.sess_uid \notin {0, 1}
      /\ ImpersonationAdmin(impersonations, r.tok) = 1

\* The slug the request asks for is the slug of another user's Page.
OwnedByOther(r) == \E g \in pages : g.slug = r.cand /\ g.user_id # r.userId

C15_OwnerCheck ==
    \A p \in Procs : LET r == req[p] IN
      /\ (Acting(p) /\ r.pc = "sp_owner") =>
           /\ db' = db
           /\ IF OwnedByOther(r)
              THEN req'[p].result = "That slug is taken" /\ req'[p].pc = "dash_page"
              ELSE req'[p].result = "" /\ req'[p].pc = "sp_upd"
      /\ (Acting(p) /\ r.pc = "sp_page" /\ r.slug = <<>> /\ req'[p].pc = "sp_owner") =>
           req'[p].cand = PageOf(pages, r.userId).slug
      /\ (Acting(p) /\ r.result = "That slug is taken") => db' = db

C15_RejectedWritesNothing ==
    \A p \in Procs : LET r == req[p] IN
      (Finished(p) /\ r.op = "POST /dashboard" /\ r.outcome = "That slug is taken") =>
        (r.wrote = <<>> /\ r.slug # <<>>)

\* C15: savePageForUser with a requested slug that its owner lookup finds on
\* a Page of a different user is rejected 'That slug is taken' and changes no
\* Page row; a request whose slug is the user's own current slug, or that
\* omits the slug, is not rejected for slug ownership.
C15_SlugTaken == []C15_RejectedWritesNothing /\ [][C15_OwnerCheck]_vars

\* An edit asking for the slug of another user's page has been rejected.
C15_Witness ==
    \E p \in Procs : LET r == req[p] IN
      /\ Finished(p) /\ r.op = "POST /dashboard" /\ r.outcome = "That slug is taken"
      /\ OwnedByOther(r)

\* C16: when two concurrent operations both observe the same slug as
\* available and the later page insert is rejected by the UNIQUE constraint
\* on slug, the page creation is retried with a suffixed slug: every user
\* whose page creation went past its existence check ends with a Page row.
C16_RaceRetried ==
    \A p \in Procs : LET r == req[p] IN
      (Finished(p) /\ r.base # <<>>) => HasPage(pages, r.userId)

\* C17: a signup that ends 'Username already taken' has written nothing:
\* under any interleaving with other requests no row of users, invite_keys,
\* pages or sessions was created or modified by it.
C17_TakenWroteNothing ==
    \A p \in Procs : LET r == req[p] IN
      (Finished(p) /\ r.op = "POST /signup" /\ r.outcome = "Username already taken") =>
        r.wrote = <<>>

C18_SearchStep ==
    \A p \in Procs : LET r == req[p]
                         n == req'[p]
                         \* sequential candidates looked up, this lookup included
                         looked == r.i - 1 IN
      (Acting(p) /\ r.pc = "ens_loop") =>
        IF ~SlugTaken(pages, r.cand) THEN n.pc = "ens_ins" /\ n.cand = r.cand
        ELSE /\ n.pc = "ens_loop"
             /\ IF looked < SlugSeqLimit THEN n.cand = r.base \o Dec(looked + 1)
                ELSE n.cand \in {r.base \o <<"-">> \o x : x \in RandomSuffixes}

\* C18: uniqueSlugEnsure looks up base, base2, base3, ... in this order,
\* returns the first candidate it finds absent, and takes the random-suffix
\* form only after as many sequential candidates as the limit (9999; here
\* SlugSeqLimit), the base and the numbered ones, have each been looked up
\* and found taken: no numbered candidate is passed over unchecked.
C18_SequentialSearch == [][C18_SearchStep]_vars

C20_ImpersonationHasSession ==
    \A x \in impersonations : SessionUser(sessions, x.token) # 0

====
